---- MODULE Spec2Model ----
(***************************************************************************)
(* TechMart dashboard (src/app.py): one Streamlit script.  Every user      *)
(* interaction re-runs the script top to bottom: load_data() behind        *)
(* st.cache_data(ttl=600), the empty-frame guard, the sidebar widgets, the *)
(* filter chain, the KPIs and the tab aggregations.                        *)
(*                                                                         *)
(* Cell values are integers: categorical columns hold codes >= 1, a        *)
(* missing cell (NaN / NaT / None) is Null, a month label is y*100+m, a    *)
(* quarter label y*10+q, a date y*10000+m*100+d.  pandas semantics are     *)
(* those of the 2.x line the script was written against.                   *)
(***************************************************************************)
EXTENDS Integers, Sequences, FiniteSets, TLC

\* ------------------------------------------------------------------ bounds
MaxRows == 2        \* rows of the CSV behind the download URL
MaxPicks == 2       \* values the user has picked over all sidebar widgets
MaxAgeLen == 2      \* characters of a textual age cell

\* ------------------------------------------------------- program constants
TTL == 600          \* st.cache_data(ttl=600)
MinorLimit == 18    \* if age < 18
YouthLimit == 35    \* elif age < 35

Null == -1          \* NaN, NaT, None: a missing cell
NaTLabel == 999999  \* the text 'NaT' that astype(str) makes of a missing period
FillValue == 0      \* pivot_table(fill_value=0)

\* --------------------------------------------------------------- helpers
Range(s) == {s[i] : i \in DOMAIN s}

Min(a, b) == IF a < b THEN a ELSE b

RECURSIVE SumSeq(_)
SumSeq(s) == IF s = <<>> THEN 0 ELSE Head(s) + SumSeq(Tail(s))

\* Python's sorted() over a set of integers: ascending.
RECURSIVE sorted(_)
sorted(S) ==
    IF S = {} THEN <<>>
    ELSE LET lo == CHOOSE x \in S : \A y \in S : x <= y
         IN <<lo>> \o sorted(S \ {lo})

Column(frame, col) == [i \in DOMAIN frame |-> frame[i][col]]

\* Series.dropna().unique(), as the set of its values.
dropna_unique(frame, col) == Range(Column(frame, col)) \ {Null}

\* ------------------------------------------------ timestamps (lines 30-34)
\* A timestamp cell of the CSV is <<year, month, day, hour>> as written in the
\* file, or <<>> for text that is no date at all.
DaysIn(y, m) ==
    IF m \in {4, 6, 9, 11} THEN 30
    ELSE IF m = 2 THEN (IF y % 4 = 0 /\ (y % 100 # 0 \/ y % 400 = 0) THEN 29 ELSE 28)
    ELSE 31

NaT == [nat |-> TRUE, y |-> 0, m |-> 0, d |-> 0, h |-> 0]

\* pd.to_datetime(..., errors='coerce'): a cell that is no valid date-time
\* becomes NaT instead of raising.
to_datetime(cell) ==
    IF Len(cell) # 4 THEN NaT
    ELSE IF /\ cell[2] \in 1..12
            /\ cell[3] \in 1..DaysIn(cell[1], cell[2])
            /\ cell[4] \in 0..23
         THEN [nat |-> FALSE, y |-> cell[1], m |-> cell[2], d |-> cell[3], h |-> cell[4]]
         ELSE NaT

\* .dt.to_period('M').astype(str): the period text, and 'NaT' for NaT.
month_of(ts) == IF ts.nat THEN NaTLabel ELSE ts.y * 100 + ts.m

\* .dt.date: the calendar date, NaT stays missing.
day_of(ts) == IF ts.nat THEN Null ELSE ts.y * 10000 + ts.m * 100 + ts.d

\* .dt.hour: NaN for NaT.
hour_of(ts) == IF ts.nat THEN Null ELSE ts.h

\* .dt.to_period('Q').astype(str): the period text, and 'NaT' for NaT.
quarter_of(ts) == IF ts.nat THEN NaTLabel ELSE ts.y * 10 + ((ts.m - 1) \div 3 + 1)

\* ------------------------------------------------- age_group (lines 37-47)
\* An age cell as read_csv types it: an int64, a float64 (n counts tenths),
\* nan, inf, or text (s, a sequence of characters).
IntAge(n) == [kind |-> "int", n |-> n, s |-> <<>>]
FloatAge(tenths) == [kind |-> "float", n |-> tenths, s |-> <<>>]
NanAge == [kind |-> "nan", n |-> 0, s |-> <<>>]
InfAge == [kind |-> "inf", n |-> 0, s |-> <<>>]
StrAge(s) == [kind |-> "str", n |-> 0, s |-> s]

Digits == {"0", "1", "2", "3", "4", "5", "6", "7", "8", "9"}

DigitVal(c) ==
    CASE c = "0" -> 0 [] c = "1" -> 1 [] c = "2" -> 2 [] c = "3" -> 3 [] c = "4" -> 4
      [] c = "5" -> 5 [] c = "6" -> 6 [] c = "7" -> 7 [] c = "8" -> 8 [] c = "9" -> 9

\* str.strip() as int() applies it to its argument.
RECURSIVE lstrip(_)
lstrip(s) == IF s # <<>> /\ Head(s) = " " THEN lstrip(Tail(s)) ELSE s

RECURSIVE rstrip(_)
rstrip(s) ==
    IF s # <<>> /\ s[Len(s)] = " " THEN rstrip(SubSeq(s, 1, Len(s) - 1)) ELSE s

\* The digit part of an integer literal: digits, single underscores between.
DigitsOk(s) ==
    /\ s # <<>>
    /\ \A i \in DOMAIN s : s[i] \in Digits \cup {"_"}
    /\ s[1] # "_" /\ s[Len(s)] # "_"
    /\ \A i \in 1..(Len(s) - 1) : ~(s[i] = "_" /\ s[i + 1] = "_")

RECURSIVE DigitsValue(_, _)
DigitsValue(s, acc) ==
    IF s = <<>> THEN acc
    ELSE IF Head(s) = "_" THEN DigitsValue(Tail(s), acc)
    ELSE DigitsValue(Tail(s), acc * 10 + DigitVal(Head(s)))

\* int(text): [ok, v]; ok = FALSE is ValueError.
int_of_str(s) ==
    LET t == rstrip(lstrip(s))
        signed == t # <<>> /\ Head(t) \in {"+", "-"}
        body == IF signed THEN Tail(t) ELSE t
        mag == DigitsValue(body, 0)
    IN IF DigitsOk(body)
       THEN [ok |-> TRUE, v |-> IF signed /\ Head(t) = "-" THEN 0 - mag ELSE mag]
       ELSE [ok |-> FALSE, v |-> 0]

\* int(age): truncation toward zero of a float, ValueError for nan,
\* OverflowError for inf, the literal's value for text.
int_of(age) ==
    CASE age.kind = "int" -> [ok |-> TRUE, v |-> age.n]
      [] age.kind = "float" ->
            [ok |-> TRUE, v |-> IF age.n >= 0 THEN age.n \div 10 ELSE 0 - ((0 - age.n) \div 10)]
      [] age.kind = "str" -> int_of_str(age.s)
      [] OTHER -> [ok |-> FALSE, v |-> 0]

age_group_le(age) ==
    LET r == int_of(age)
    IN IF ~r.ok THEN "Unknown"
       ELSE IF r.v <= MinorLimit THEN "Minor"
       ELSE IF r.v <= YouthLimit THEN "Youth"
       ELSE "Adult"

age_group(age) ==
    LET r == int_of(age)
    IN IF ~r.ok THEN "Unknown"
       ELSE IF r.v < MinorLimit THEN "Minor"
       ELSE IF r.v < YouthLimit THEN "Youth"
       ELSE "Adult"

\* ------------------------------------------------------------ the dataset
\* Rows the CSV may hold (columns as after line 27's normalisation).  Counties
\* 1 (Nairobi) and 2 (Mombasa); stores 1 and 2 trade in county 1, store 3 in
\* county 2.
Row(ts, county, store, cat, prod, pay, gender, age, revenue, discount) ==
    [timestamp |-> ts, county |-> county, storename |-> store, category |-> cat,
     product |-> prod, paymentmethod |-> pay, gender |-> gender, age |-> age,
     revenue |-> revenue, discount |-> discount]

SampleRows ==
    { Row(<<2024, 1, 15, 9>>,  1,    1,    1,    1, 1, 1,    IntAge(17),             100, 10),
      Row(<<2024, 2, 20, 14>>, 1,    2,    2,    2, 2, 2,    IntAge(34),             50,  0),
      Row(<<2024, 1, 15, 14>>, 2,    3,    1,    1, 1, 2,    FloatAge(350),          200, 5),
      Row(<<2024, 13, 1, 9>>,  2,    Null, 2,    2, 1, 1,    StrAge(<<"a", "b">>),   30,  0),
      Row(<<2024, 4, 2, 9>>,   Null, 1,    Null, 1, 2, Null, NanAge,                 70,  7),
      Row(<<>>,                1,    1,    1,    2, 1, 1,    StrAge(<<"1", "8">>),   40,  4) }

SeqsUpTo(S, n) == UNION {[1..k -> S] : k \in 0..n}

\* What the download URL may serve: any table of at most MaxRows rows.
Sources == SeqsUpTo(SampleRows, MaxRows)

\* Age cells for the age_group study: integers and floats around the two
\* limits, nan, inf, and every text of at most MaxAgeLen characters.
AgeAlphabet == {"1", "3", "5", "7", "8", "+", "-", "_", " ", ".", "a"}

AgeCells ==
    {IntAge(n) : n \in {-1, 0} \cup ((MinorLimit - 2)..(MinorLimit + 1))
                                \cup ((YouthLimit - 2)..(YouthLimit + 1))}
    \cup {FloatAge(t) : t \in {-5, 5} \cup ((MinorLimit * 10 - 11)..(MinorLimit * 10 + 1))
                                      \cup ((YouthLimit * 10 - 11)..(YouthLimit * 10 + 1))}
    \cup {NanAge, InfAge}
    \cup {StrAge(s) : s \in SeqsUpTo(AgeAlphabet, MaxAgeLen)}

\* One row per table, its other categorical cells left empty.
AgeSources ==
    {<<Row(<<2024, 1, 15, 9>>, Null, Null, Null, Null, Null, Null, a, 100, 10)>> :
        a \in AgeCells}

\* Dates the date picker is used with.
SelectableDates == {20240115, 20240220}

\* --------------------------------------------------- load_data (lines 18-55)
\* A DataFrame: whether it has the CSV's columns, and its rows in index order.
Frame(rows) == [cols |-> TRUE, rows |-> rows]

\* pd.DataFrame(): no columns, no rows.
EmptyFrame == [cols |-> FALSE, rows |-> <<>>]

\* df.empty
IsEmptyNoColumns(frame) == ~frame.cols

IsEmpty(frame) == frame.rows = <<>>

\* Lines 27-49: the derived columns of one row; idx is the row's index label.
Enrich(raw, i) ==
    LET ts == to_datetime(raw.timestamp)
    IN [idx |-> i - 1, timestamp |-> ts, county |-> raw.county,
        storename |-> raw.storename, category |-> raw.category,
        product |-> raw.product, paymentmethod |-> raw.paymentmethod,
        gender |-> raw.gender, age |-> raw.age, revenue |-> raw.revenue,
        discount |-> raw.discount,
        month |-> month_of(ts), day |-> day_of(ts), hour |-> hour_of(ts),
        quarter |-> quarter_of(ts), age_group |-> age_group(raw.age)]

\* The try body of load_data on a table that was fetched.
load_ok(table) == Frame([i \in DOMAIN table |-> Enrich(table[i], i)])

\* What load_data returns from its except branch (lines 53-55).
load_failed == EmptyFrame

\* ------------------------------------------------------------------ state
VARIABLES
    source,             \* the table behind the download URL
    cache,              \* st.cache_data's entry for load_data()
    lastGood,           \* history: what the last successful load returned
    pc,                 \* where the current script run stands
    df,                 \* line 59
    shown,              \* st.error / st.warning messages of this run
    selected_county, store_names, selected_store, selected_category,
    selected_product, selected_payment, selected_gender, selected_age_group,
    date_selection,     \* the sidebar widgets' values (lines 71-99)
    filtered_df,        \* lines 102-130
    total_txns, total_revenue, avg_sale, total_discount,   \* lines 137-140
    county_sales, view_option, drill_df, roll_option, roll_df, pivot_df

loadVars == <<source, cache, lastGood>>
sidebarVars ==
    <<selected_county, store_names, selected_store, selected_category,
      selected_product, selected_payment, selected_gender, selected_age_group,
      date_selection>>
kpiVars == <<total_txns, total_revenue, avg_sale, total_discount>>
tabVars == <<county_sales, view_option, drill_df, roll_option, roll_df, pivot_df>>
vars == <<loadVars, pc, df, shown, sidebarVars, filtered_df, kpiVars, tabVars>>

\* -------------------------------------------- st.cache_data (line 17)
NoEntry == [present |-> FALSE, value |-> EmptyFrame, msgs |-> {}, age |-> 0]

\* The entry is served while it is younger than ttl seconds.
cache_valid(entry) == entry.present /\ entry.age < TTL

\* Whatever the function returns is memoized, with the st.* messages it
\* emitted, which a hit replays.
cache_store(value, msgs) == [present |-> TRUE, value |-> value, msgs |-> msgs, age |-> 0]

\* Seconds that pass between two script runs.
Waits == {0, TTL}

\* ------------------------------------------------- filters (lines 71-130)
\* frame[frame[col].isin(values)]: a missing cell is in no selection.
isin(rows, col, values) ==
    LET keep(r) == r[col] \in values IN SelectSeq(rows, keep)

\* sorted(df[col].dropna().unique())
options(rows, col) == sorted(dropna_unique(rows, col))

\* Lines 75-78.
store_options_all(frame, counties) == options(frame.rows, "storename")

store_options(frame, counties) ==
    IF counties # {}
    THEN options(isin(frame.rows, "county", counties), "storename")
    ELSE options(frame.rows, "storename")

\* One "if selected: filtered = filtered[col.isin(selected)]" of lines 104-117.
filter_step_always(rows, col, selected) == isin(rows, col, selected)

filter_step(rows, col, selected) ==
    IF selected # {} THEN isin(rows, col, selected) ELSE rows

\* Lines 120-130: comparing a missing date is False, whatever the operator.
date_filter_exclusive(rows, dates) ==
    IF Len(dates) = 2
    THEN LET keep(r) == day_of(r.timestamp) # Null
                        /\ day_of(r.timestamp) >= dates[1]
                        /\ day_of(r.timestamp) < dates[2]
         IN SelectSeq(rows, keep)
    ELSE IF Len(dates) = 1
    THEN LET keep(r) == day_of(r.timestamp) # Null /\ day_of(r.timestamp) = dates[1]
         IN SelectSeq(rows, keep)
    ELSE rows

date_filter(rows, dates) ==
    IF Len(dates) = 2
    THEN LET keep(r) == day_of(r.timestamp) # Null
                        /\ day_of(r.timestamp) >= dates[1]
                        /\ day_of(r.timestamp) <= dates[2]
         IN SelectSeq(rows, keep)
    ELSE IF Len(dates) = 1
    THEN LET keep(r) == day_of(r.timestamp) # Null /\ day_of(r.timestamp) = dates[1]
         IN SelectSeq(rows, keep)
    ELSE rows

\* Lines 102-130, in the script's order.
apply_filters(rows, county, store, category, product, payment, gender, ages, dates) ==
    LET f1 == filter_step(rows, "county", county)
        f2 == filter_step(f1, "storename", store)
        f3 == filter_step(f2, "category", category)
        f4 == filter_step(f3, "product", product)
        f5 == filter_step(f4, "paymentmethod", payment)
        f6 == filter_step(f5, "gender", gender)
        f7 == filter_step(f6, "age_group", ages)
    IN date_filter(f7, dates)

\* ------------------------------------------------------ KPIs (lines 137-140)
revenue_of(rows) == SumSeq(Column(rows, "revenue"))

\* Series.mean(): NaN over no rows, else sum / count (kept as a fraction).
NaN == [nan |-> TRUE, num |-> 0, den |-> 1]

mean_unguarded(rows) == [nan |-> FALSE, num |-> revenue_of(rows), den |-> Len(rows)]

mean_revenue(rows) ==
    IF rows = <<>> THEN NaN
    ELSE [nan |-> FALSE, num |-> revenue_of(rows), den |-> Len(rows)]

\* ------------------------------------------ aggregations (lines 163-218)
\* groupby(col)['revenue'].sum().reset_index(): one row per key, keys
\* ascending; rows whose key is missing are dropped (dropna=True).
groupby_sum_keepna(rows, col) ==
    LET keys == sorted(Range(Column(rows, col)))
    IN [k \in DOMAIN keys |->
            [key |-> keys[k], revenue |-> revenue_of(isin(rows, col, {keys[k]}))]]

groupby_sum(rows, col) ==
    LET keys == sorted(dropna_unique(rows, col))
    IN [k \in DOMAIN keys |->
            [key |-> keys[k], revenue |-> revenue_of(isin(rows, col, {keys[k]}))]]

\* sort_values('revenue', ascending=False): insertion keeps ties in order.
RECURSIVE insert_desc(_, _)
insert_desc(done, g) ==
    IF done = <<>> THEN <<g>>
    ELSE IF Head(done).revenue >= g.revenue
         THEN <<Head(done)>> \o insert_desc(Tail(done), g)
         ELSE <<g>> \o done

RECURSIVE sort_desc(_, _)
sort_desc(todo, done) ==
    IF todo = <<>> THEN done ELSE sort_desc(Tail(todo), insert_desc(done, Head(todo)))

\* Lines 163-168.
county_sales_of(rows) == sort_desc(groupby_sum(rows, "county"), <<>>)

\* The column each drill level and roll-up period groups by (lines 184-205).
drill_column(level) ==
    CASE level = "Monthly" -> "month" [] level = "Daily" -> "day" [] OTHER -> "hour"

roll_column(period) == IF period = "Monthly" THEN "month" ELSE "quarter"

\* Lines 212-218: pivot_table(index='category', columns='month',
\* values='revenue', aggfunc='sum', fill_value=0).  Rows with a missing key
\* are dropped, the sums of the pairs that occur are unstacked over
\* index x columns, and the holes are filled.
pivot_nofill(rows) ==
    LET keep(r) == r.category # Null /\ r.month # Null
        kept == SelectSeq(rows, keep)
        index == sorted(Range(Column(kept, "category")))
        columns == sorted(Range(Column(kept, "month")))
        cell(c, m) == LET hit(r) == r.category = c /\ r.month = m IN SelectSeq(kept, hit)
    IN [index |-> index, columns |-> columns,
        cells |-> [p \in Range(index) \X Range(columns) |->
                      IF cell(p[1], p[2]) # <<>> THEN revenue_of(cell(p[1], p[2]))
                      ELSE Null]]

pivot_table(rows) ==
    LET keep(r) == r.category # Null /\ r.month # Null
        kept == SelectSeq(rows, keep)
        index == sorted(Range(Column(kept, "category")))
        columns == sorted(Range(Column(kept, "month")))
        cell(c, m) == LET hit(r) == r.category = c /\ r.month = m IN SelectSeq(kept, hit)
    IN [index |-> index, columns |-> columns,
        cells |-> [p \in Range(index) \X Range(columns) |->
                      IF cell(p[1], p[2]) # <<>> THEN revenue_of(cell(p[1], p[2]))
                      ELSE FillValue]]

NoPivot == [index |-> <<>>, columns |-> <<>>, cells |-> <<>>]

\* ------------------------------------------------------------------- runs
RunReset ==
    /\ df = EmptyFrame /\ shown = {}
    /\ selected_county = {} /\ store_names = <<>> /\ selected_store = {}
    /\ selected_category = {} /\ selected_product = {} /\ selected_payment = {}
    /\ selected_gender = {} /\ selected_age_group = {} /\ date_selection = <<>>
    /\ filtered_df = <<>>
    /\ total_txns = 0 /\ total_revenue = 0 /\ avg_sale = NaN /\ total_discount = 0
    /\ county_sales = <<>> /\ view_option = "Monthly" /\ drill_df = <<>>
    /\ roll_option = "Monthly" /\ roll_df = <<>> /\ pivot_df = NoPivot

Start(tables) ==
    /\ source \in tables
    /\ cache = NoEntry
    /\ lastGood = [some |-> FALSE, value |-> EmptyFrame]
    /\ pc = "load"
    /\ RunReset

Init == Start(Sources)

InitAge == Start(AgeSources)

afterLoad == <<sidebarVars, filtered_df, kpiVars, tabVars>>

\* Line 59, the entry still valid: the memoized value, load_data not run.
CacheHit ==
    /\ pc = "load"
    /\ cache_valid(cache)
    /\ df' = cache.value
    /\ shown' = shown \cup cache.msgs
    /\ pc' = "guard"
    /\ UNCHANGED <<loadVars, afterLoad>>

\* Line 59, no valid entry, the fetch succeeds: lines 24-51.
FetchOk ==
    /\ pc = "load"
    /\ ~cache_valid(cache)
    /\ df' = load_ok(source)
    /\ cache' = cache_store(df', {})
    /\ lastGood' = [some |-> TRUE, value |-> df']
    /\ pc' = "guard"
    /\ UNCHANGED <<source, shown, afterLoad>>

\* Line 59, no valid entry, read_csv (or a later line of the try body)
\* raises: lines 53-55 report and return an empty frame, which is a
\* normal return to the memoizing decorator.
FetchFails ==
    /\ pc = "load"
    /\ ~cache_valid(cache)
    /\ shown' = shown \cup {"error"}
    /\ df' = load_failed
    /\ cache' = cache_store(df', {"error"})
    /\ pc' = "guard"
    /\ UNCHANGED <<source, lastGood, afterLoad>>

\* Lines 61-63.
EmptyGuard ==
    /\ pc = "guard"
    /\ IsEmpty(df)
    /\ shown' = shown \cup {"warning"}
    /\ pc' = "stopped"
    /\ UNCHANGED <<loadVars, df, afterLoad>>

Picks(S, k) == {x \in SUBSET S : Cardinality(x) <= k}

DateChoices(k) ==
    {<<>>}
    \cup (IF k >= 1 THEN {<<d>> : d \in SelectableDates} ELSE {})
    \cup (IF k >= 2
          THEN {p \in SelectableDates \X SelectableDates : p[1] <= p[2]}
          ELSE {})

\* Lines 66-99: the widgets return what the user has picked among the
\* options offered; the store options follow the county selection.
Sidebar ==
    /\ pc = "guard"
    /\ ~IsEmpty(df)
    /\ \E county \in Picks(Range(options(df.rows, "county")), MaxPicks) :
         LET names == store_options(df, county)
             k1 == MaxPicks - Cardinality(county)
         IN \E store \in Picks(Range(names), k1) :
              LET k2 == k1 - Cardinality(store)
              IN \E category \in Picks(Range(options(df.rows, "category")), k2) :
                   LET k3 == k2 - Cardinality(category)
                   IN \E product \in Picks(Range(options(df.rows, "product")), k3) :
                        LET k4 == k3 - Cardinality(product)
                        IN \E payment \in Picks(Range(options(df.rows, "paymentmethod")), k4) :
                             LET k5 == k4 - Cardinality(payment)
                             IN \E gender \in Picks(Range(options(df.rows, "gender")), k5) :
                                  LET k6 == k5 - Cardinality(gender)
                                  IN \E ages \in Picks({"Minor", "Youth", "Adult"}, k6) :
                                       \E dates \in DateChoices(k6 - Cardinality(ages)) :
                                          /\ selected_county' = county
                                          /\ store_names' = names
                                          /\ selected_store' = store
                                          /\ selected_category' = category
                                          /\ selected_product' = product
                                          /\ selected_payment' = payment
                                          /\ selected_gender' = gender
                                          /\ selected_age_group' = ages
                                          /\ date_selection' = dates
    /\ pc' = "filter"
    /\ UNCHANGED <<loadVars, df, shown, filtered_df, kpiVars, tabVars>>

\* Lines 102-130.
ApplyFilters ==
    /\ pc = "filter"
    /\ filtered_df' = apply_filters(df.rows, selected_county, selected_store,
                                    selected_category, selected_product,
                                    selected_payment, selected_gender,
                                    selected_age_group, date_selection)
    /\ pc' = "kpi"
    /\ UNCHANGED <<loadVars, df, shown, sidebarVars, kpiVars, tabVars>>

\* Lines 137-146.
KPIs ==
    /\ pc = "kpi"
    /\ total_txns' = Len(filtered_df)
    /\ total_revenue' = revenue_of(filtered_df)
    /\ avg_sale' = mean_revenue(filtered_df)
    /\ total_discount' = SumSeq(Column(filtered_df, "discount"))
    /\ pc' = "tabs"
    /\ UNCHANGED <<loadVars, df, shown, sidebarVars, filtered_df, tabVars>>

\* Lines 160-228: the four data tabs, with the radio buttons' values.
Tabs ==
    /\ pc = "tabs"
    /\ county_sales' = county_sales_of(filtered_df)
    /\ \E level \in {"Monthly", "Daily", "Hourly"} :
         /\ view_option' = level
         /\ drill_df' = groupby_sum(filtered_df, drill_column(level))
    /\ \E period \in {"Monthly", "Quarterly"} :
         /\ roll_option' = period
         /\ roll_df' = groupby_sum(filtered_df, roll_column(period))
    /\ pivot_df' = pivot_table(filtered_df)
    /\ pc' = "done"
    /\ UNCHANGED <<loadVars, df, shown, sidebarVars, filtered_df, kpiVars>>

\* The user touches a widget, or the page is opened again, some time after
\* the last run ended: the script runs again from the top.
Rerun ==
    /\ pc \in {"done", "stopped"}
    /\ \E dt \in Waits :
         cache' = IF cache.present
                  THEN [cache EXCEPT !.age = Min(cache.age + dt, TTL)]
                  ELSE cache
    /\ pc' = "load"
    /\ df' = EmptyFrame /\ shown' = {}
    /\ selected_county' = {} /\ store_names' = <<>> /\ selected_store' = {}
    /\ selected_category' = {} /\ selected_product' = {} /\ selected_payment' = {}
    /\ selected_gender' = {} /\ selected_age_group' = {} /\ date_selection' = <<>>
    /\ filtered_df' = <<>>
    /\ total_txns' = 0 /\ total_revenue' = 0 /\ avg_sale' = NaN /\ total_discount' = 0
    /\ county_sales' = <<>> /\ view_option' = "Monthly" /\ drill_df' = <<>>
    /\ roll_option' = "Monthly" /\ roll_df' = <<>> /\ pivot_df' = NoPivot
    /\ UNCHANGED <<source, lastGood>>

Next ==
    \/ CacheHit \/ FetchOk \/ FetchFails
    \/ EmptyGuard \/ Sidebar \/ ApplyFilters \/ KPIs \/ Tabs
    \/ Rerun

Spec == Init /\ [][Next]_vars

SpecAge == InitAge /\ [][Next]_vars

\* ------------------------------------------------------------- properties
Filtered == pc \in {"kpi", "tabs", "done"}

PastSidebar == pc \in {"filter", "kpi", "tabs", "done"}

Survives(r) == \E j \in DOMAIN filtered_df : filtered_df[j] = r

\* A row matches a multiselect when its cell is one of the selected values.
MatchesSelection(r, col, selected) == selected = {} \/ r[col] \in selected

MatchesSelections(r) ==
    /\ MatchesSelection(r, "county", selected_county)
    /\ MatchesSelection(r, "storename", selected_store)
    /\ MatchesSelection(r, "category", selected_category)
    /\ MatchesSelection(r, "product", selected_product)
    /\ MatchesSelection(r, "paymentmethod", selected_payment)
    /\ MatchesSelection(r, "gender", selected_gender)
    /\ MatchesSelection(r, "age_group", selected_age_group)

\* A row matches the date selection: no date, that very day, or a day of the
\* closed range.
MatchesDates(r) ==
    \/ date_selection = <<>>
    \/ /\ Len(date_selection) = 1
       /\ ~r.timestamp.nat
       /\ r.day = date_selection[1]
    \/ /\ Len(date_selection) = 2
       /\ ~r.timestamp.nat
       /\ date_selection[1] <= r.day /\ r.day <= date_selection[2]

\* C1: a loaded row is in the filtered row-set iff it matches every filter
\* whose selection is non-empty (the date selection included); an empty
\* selection removes no row; the filtered rows are loaded rows, in their
\* order, none twice.
C1_FilterIsConjunction ==
    Filtered =>
        /\ \A i \in DOMAIN df.rows :
              Survives(df.rows[i]) <=> (MatchesSelections(df.rows[i]) /\ MatchesDates(df.rows[i]))
        /\ \A j \in DOMAIN filtered_df : \E i \in DOMAIN df.rows : df.rows[i] = filtered_df[j]
        /\ \A j, k \in DOMAIN filtered_df : j < k => filtered_df[j].idx < filtered_df[k].idx

\* Two filters are active, one row passes both and one row fails.
C1_Witness ==
    /\ pc = "done"
    /\ selected_county # {} /\ selected_category # {}
    /\ selected_store = {} /\ date_selection = <<>>
    /\ Len(filtered_df) = 1 /\ Len(df.rows) = 2

\* C9: the date filter by the number of dates picked: none removes no row;
\* one keeps the rows of that day; two keep the rows of the closed range
\* start..end; a row without a timestamp survives only when no date is picked.
C9_DateFilter ==
    Filtered =>
        /\ \A i \in DOMAIN df.rows :
              LET r == df.rows[i]
                  d == day_of(r.timestamp)
              IN MatchesSelections(r) =>
                   /\ Len(date_selection) = 0 => Survives(r)
                   /\ Len(date_selection) = 1 =>
                        (Survives(r) <=> (d # Null /\ d = date_selection[1]))
                   /\ Len(date_selection) = 2 =>
                        (Survives(r) <=>
                            (d # Null /\ date_selection[1] <= d /\ d <= date_selection[2]))
        /\ \A j \in DOMAIN filtered_df :
              filtered_df[j].timestamp.nat => date_selection = <<>>

\* A range whose end day is the day of a surviving row, and a row without a
\* timestamp that the range removed.
C9_Witness ==
    /\ pc = "done"
    /\ Len(date_selection) = 2 /\ date_selection[1] < date_selection[2]
    /\ \E j \in DOMAIN filtered_df : filtered_df[j].day = date_selection[2]
    /\ \E i \in DOMAIN df.rows : df.rows[i].timestamp.nat /\ ~Survives(df.rows[i])

\* C7: the store names offered are the distinct non-null store names of the
\* loaded rows whose county is selected, of all loaded rows when no county is
\* selected, whatever the other widgets hold, in every run.
C7_StoreNamesFollowCounty ==
    PastSidebar =>
        /\ Range(store_names) =
              {df.rows[i].storename :
                  i \in {k \in DOMAIN df.rows :
                            selected_county = {} \/ df.rows[k].county \in selected_county}}
              \ {Null}
        /\ \A j, k \in DOMAIN store_names : j < k => store_names[j] < store_names[k]
        /\ selected_store \subseteq Range(store_names)

\* A county is selected together with another filter, and a store of the
\* other county is not offered.
C7_Witness ==
    /\ pc = "done"
    /\ selected_county # {} /\ selected_category # {}
    /\ store_names # <<>>
    /\ \E i \in DOMAIN df.rows :
          df.rows[i].storename # Null /\ df.rows[i].storename \notin Range(store_names)

GroupTotal(groups) == SumSeq(Column(groups, "revenue"))

\* The revenue of the filtered rows that have a value in column col.
KeyedRevenue(col) ==
    LET keyed(r) == r[col] # Null IN revenue_of(SelectSeq(filtered_df, keyed))

HasNull(col) == \E j \in DOMAIN filtered_df : filtered_df[j][col] = Null

\* C2 as stated: in every grouping view (county, and the drill and roll-up
\* columns month, day, hour, quarter) the group sums add up to the KPI total
\* revenue, rows with a null county or an unparsed timestamp included.
C2_GroupSumsEqualTotal ==
    pc = "done" =>
        /\ GroupTotal(county_sales) = total_revenue
        /\ GroupTotal(drill_df) = total_revenue
        /\ GroupTotal(roll_df) = total_revenue

\* C2 as amended: the group sums of a view add up to the revenue of the
\* filtered rows whose group key is not null; that is the KPI total revenue
\* by month and by quarter, and by county, day or hour when no filtered row
\* has a null key.
C2_GroupSumsEqualKeyedRevenue ==
    pc = "done" =>
        /\ GroupTotal(county_sales) = KeyedRevenue("county")
        /\ GroupTotal(drill_df) = KeyedRevenue(drill_column(view_option))
        /\ GroupTotal(roll_df) = KeyedRevenue(roll_column(roll_option))
        /\ ~HasNull("county") => GroupTotal(county_sales) = total_revenue
        /\ ~HasNull(drill_column(view_option)) => GroupTotal(drill_df) = total_revenue
        /\ view_option = "Monthly" => GroupTotal(drill_df) = total_revenue
        /\ GroupTotal(roll_df) = total_revenue
        /\ \A k \in DOMAIN county_sales : county_sales[k].key # Null
        /\ \A k \in DOMAIN drill_df : drill_df[k].key # Null

\* A filtered set with a null county and an unparsed timestamp, seen by day:
\* both views lose revenue against the KPI.
C2_Witness ==
    /\ pc = "done"
    /\ view_option = "Daily"
    /\ HasNull("county") /\ HasNull("day")
    /\ GroupTotal(county_sales) > 0 /\ GroupTotal(county_sales) < total_revenue
    /\ GroupTotal(drill_df) > 0 /\ GroupTotal(drill_df) < total_revenue

\* C3: a load attempt whose fetch fails leaves the cache as it was: the
\* cache holds the snapshot of the last successful load or nothing, never
\* the result of a failed load.
C3_CacheHoldsLastGoodLoad ==
    cache.present => (lastGood.some /\ cache.value = lastGood.value)

\* C4: a run whose load failed or gave zero rows shows the warning and
\* halts: nothing of the sidebar, the filters, the KPIs or the tabs is
\* computed, and no run is past the guard with a failed or empty load.
C4_NoDashboardWithoutData ==
    /\ PastSidebar => (df.rows # <<>> /\ df.cols /\ "error" \notin shown)
    /\ (df.rows = <<>> /\ pc \notin {"load", "guard"}) => pc = "stopped"
    /\ pc = "stopped" =>
          /\ "warning" \in shown
          /\ store_names = <<>> /\ filtered_df = <<>>
          /\ total_txns = 0 /\ avg_sale = NaN
          /\ county_sales = <<>> /\ drill_df = <<>> /\ roll_df = <<>>
          /\ pivot_df = NoPivot

\* A run halted on a failed load, after an earlier load had succeeded.
C4_Witness ==
    /\ pc = "stopped"
    /\ shown = {"error", "warning"}
    /\ lastGood.some

\* ---- age_group, stated from the rule
\* Text that reads as an integer: spaces, an optional sign, digits with
\* single underscores between digits, spaces.
IntegerText(s) ==
    \E i, j \in DOMAIN s :
        /\ i <= j
        /\ \A k \in DOMAIN s : (k < i \/ k > j) => s[k] = " "
        /\ LET first == IF s[i] \in {"+", "-"} THEN i + 1 ELSE i
           IN /\ first <= j
              /\ s[first] \in Digits /\ s[j] \in Digits
              /\ \A k \in first..j :
                    \/ s[k] \in Digits
                    \/ s[k] = "_" /\ s[k - 1] \in Digits /\ s[k + 1] \in Digits

RECURSIVE Pow10(_)
Pow10(n) == IF n = 0 THEN 1 ELSE 10 * Pow10(n - 1)

TextValue(s) ==
    LET isDigit(c) == c \in Digits
        ds == SelectSeq(s, isDigit)
        RECURSIVE place(_)
        place(k) == IF k > Len(ds) THEN 0
                    ELSE DigitVal(ds[k]) * Pow10(Len(ds) - k) + place(k + 1)
    IN IF "-" \in Range(s) THEN 0 - place(1) ELSE place(1)

ParsesAsInteger(age) ==
    \/ age.kind \in {"int", "float"}
    \/ age.kind = "str" /\ IntegerText(age.s)

\* age < limit, for an age that parses.
Below(age, limit) ==
    CASE age.kind = "int" -> age.n < limit
      [] age.kind = "float" -> age.n < limit * 10
      [] OTHER -> TextValue(age.s) < limit

AgeLabels == {"Minor", "Youth", "Adult", "Unknown"}

\* C5: every loaded row has one of the four labels, decided by its age
\* alone: Unknown when the age does not parse as an integer, else Minor
\* below 18, Youth from 18 and below 35, Adult from 35.
C5_AgeGroupRule ==
    \A i \in DOMAIN df.rows :
        LET a == df.rows[i].age
            g == df.rows[i].age_group
        IN /\ g \in AgeLabels
           /\ g = "Unknown" <=> ~ParsesAsInteger(a)
           /\ ParsesAsInteger(a) =>
                /\ g = "Minor" <=> Below(a, 18)
                /\ g = "Youth" <=> (~Below(a, 18) /\ Below(a, 35))
                /\ g = "Adult" <=> ~Below(a, 35)

\* The text '18' is loaded and classified Youth.
C5_Witness ==
    /\ pc = "done"
    /\ \E i \in DOMAIN df.rows :
          /\ df.rows[i].age = StrAge(<<"1", "8">>)
          /\ df.rows[i].age_group = "Youth"

\* ---- pivot
PivotSum(c, m) ==
    LET hit(r) == r.category = c /\ r.month = m IN revenue_of(SelectSeq(filtered_df, hit))

PivotDense(cats, months) ==
    /\ Range(pivot_df.index) = cats
    /\ Range(pivot_df.columns) = months
    /\ Len(pivot_df.index) = Cardinality(cats)
    /\ Len(pivot_df.columns) = Cardinality(months)
    /\ DOMAIN pivot_df.cells = cats \X months
    /\ \A p \in cats \X months : pivot_df.cells[p] = PivotSum(p[1], p[2])

\* C6 as stated: the pivot's rows are the categories and its columns the
\* months that occur in the filtered rows, every cell is present and holds
\* the revenue of its category and month, 0 when no row has both.
C6_PivotDenseOverFilteredRows ==
    pc = "done" =>
        PivotDense(dropna_unique(filtered_df, "category"),
                   dropna_unique(filtered_df, "month"))

\* C6 as amended: the same, over the filtered rows that have a category (a
\* month label is never null); a month seen only on rows without a category
\* is no column.
C6_PivotDenseOverCategorisedRows ==
    pc = "done" =>
        LET categorised(r) == r.category # Null /\ r.month # Null
            kept == SelectSeq(filtered_df, categorised)
        IN PivotDense(Range(Column(kept, "category")), Range(Column(kept, "month")))

\* Two categories in two different months: four cells, two of them filled
\* with 0.
C6_Witness ==
    /\ pc = "done"
    /\ Len(pivot_df.index) = 2 /\ Len(pivot_df.columns) = 2
    /\ Cardinality({p \in DOMAIN pivot_df.cells : pivot_df.cells[p] = 0}) = 2
    /\ Cardinality({p \in DOMAIN pivot_df.cells : pivot_df.cells[p] > 0}) = 2

\* C8: over an empty filtered row-set the KPI step and the tabs run: the
\* count, the revenue and the discount are 0, the average is NaN, and the
\* county, drill-down, roll-up and pivot results are empty.
C8_EmptyFilteredSet ==
    filtered_df = <<>> =>
        /\ pc = "kpi" => ENABLED KPIs
        /\ pc = "tabs" => ENABLED Tabs
        /\ pc \in {"tabs", "done"} =>
              /\ total_txns = 0 /\ total_revenue = 0 /\ total_discount = 0
              /\ avg_sale = NaN
        /\ pc = "done" =>
              /\ county_sales = <<>> /\ drill_df = <<>> /\ roll_df = <<>>
              /\ pivot_df = NoPivot

\* The filters removed every row of a loaded table.
C8_Witness ==
    /\ pc = "done"
    /\ df.rows # <<>> /\ filtered_df = <<>>
    /\ selected_county # {}

\* C10: a row whose timestamp does not parse stays in the row-set with
\* month, day, hour and quarter null, and is in no month, day, hour or
\* quarter group.
C10_UnparsedTimestampHasNoBuckets ==
    /\ Len(df.rows) \in {0, Len(source)}
    /\ \A i \in DOMAIN df.rows :
          df.rows[i].timestamp.nat =>
              /\ df.rows[i].month = Null /\ df.rows[i].day = Null
              /\ df.rows[i].hour = Null /\ df.rows[i].quarter = Null
    /\ pc = "done" =>
          \A j \in DOMAIN filtered_df :
              filtered_df[j].timestamp.nat =>
                  /\ \A k \in DOMAIN drill_df :
                        drill_df[k].key # filtered_df[j][drill_column(view_option)]
                  /\ \A k \in DOMAIN roll_df :
                        roll_df[k].key # filtered_df[j][roll_column(roll_option)]

====
